---- MODULE Spec2Model ----
(***************************************************************************)
(* Model of manjaro_hello.py: locale resolution (Hello.get_best_locale),   *)
(* page loading (Hello.get_page), the autostart toggle                     *)
(* (Hello.set_autostart) and the life cycle of the save record             *)
(* (Hello.__init__, Hello.set_locale, Hello.on_delete_window, read_json,   *)
(* write_json).                                                            *)
(*                                                                         *)
(* Python values are modelled as sequences: a str is the sequence of its   *)
(* characters, None is the one-element sequence None, opaque texts (page   *)
(* bodies, messages) are one-element sequences holding the text.           *)
(***************************************************************************)
EXTENDS Integers, Sequences, FiniteSets, TLC

VARIABLES
    pc,              \* "init" before Hello(), "running", "crashed", "closed"
    save_file,       \* the file at preferences["save_path"]
    save,            \* self.save
    default_locale,  \* self.preferences["default_locale"]
    sys_locale,      \* locale.getdefaultlocale()[0]
    locales,         \* directory names d with <locale_path>/d/LC_MESSAGES/<app>.mo a file
    pages,           \* the files <data_path>/pages/<dir>/<page>
    link,            \* what is at fix_path(preferences["autostart_path"])
    desktop,         \* whether preferences["desktop_path"] is an existing file
    i3_config,       \* the file ~/.i3/config
    autostart,       \* self.autostart
    calls,           \* the last two set_autostart calls, oldest first
    ncalls,          \* number of handler calls made so far
    writes,          \* number of times write_json wrote the whole save file
    last             \* the last operation: its name, arguments, result, exception

vars == <<pc, save_file, save, default_locale, sys_locale, locales, pages,
          link, desktop, i3_config, autostart, calls, ncalls, writes, last>>

----------------------------------------------------------------------------
(* Python values *)

None == <<"<None>">>
NoneStr == <<"N", "o", "n", "e">>        \* str(None)
EmptyStr == <<>>
en == <<"e", "n">>
fr == <<"f", "r">>
de == <<"d", "e">>
en_US == <<"e", "n", "_", "U", "S">>
en_hy_US == <<"e", "n", "-", "U", "S">>
fr_FR == <<"f", "r", "_", "F", "R">>
de_DE == <<"d", "e", "_", "D", "E">>

\* "{}".format(x): str(x)
Format(x) == IF x = None THEN NoneStr ELSE x

\* c in s, for a one-character c
Contains(s, c) == \E i \in 1..Len(s) : s[i] = c

\* s.replace(a, b), for one-character a and b
ReplaceChar(s, a, b) == [i \in 1..Len(s) |-> IF s[i] = a THEN b ELSE s[i]]

\* s[:n]
Prefix(s, n) == SubSeq(s, 1, IF Len(s) < n THEN Len(s) ELSE n)

NoCall == [op |-> "none", arg |-> None, ret |-> None, exc |-> "none"]

----------------------------------------------------------------------------
(* Hello.get_best_locale *)

\* os.path.isfile(path.format(x))
MoIsFile(x, mo) == Format(x) \in mo

\* A value json.load returns: None, or a dict given by its keys and the
\* value at "locale" (the program reads no other key).
LocaleKey == <<"l", "o", "c", "a", "l", "e">>
PyNone == [kind |-> "None", keys |-> {}, locale |-> None]
Dict(ks, x) == [kind |-> "dict", keys |-> ks, locale |-> x]

\* self.save["locale"]: KeyError when the key is missing
HasLocale(sv) == LocaleKey \in sv.keys

get_best_locale_sysfirst(sv, dflt, sys, mo) ==
    IF ~HasLocale(sv) THEN [ret |-> None, exc |-> "KeyError"]
    ELSE IF sys # None /\ MoIsFile(sys, mo)
         THEN [ret |-> ReplaceChar(sys, "_", "-"), exc |-> "none"]
    ELSE IF MoIsFile(sv.locale, mo) THEN [ret |-> sv.locale, exc |-> "none"]
    ELSE [ret |-> dflt, exc |-> "none"]

get_best_locale(sv, dflt, sys, mo) ==
    IF ~HasLocale(sv) THEN [ret |-> None, exc |-> "KeyError"]
    ELSE IF MoIsFile(sv.locale, mo) THEN [ret |-> sv.locale, exc |-> "none"]
    ELSE IF sv.locale = dflt THEN [ret |-> dflt, exc |-> "none"]
    ELSE IF MoIsFile(sys, mo)
         THEN IF sys = None
              THEN [ret |-> None, exc |-> "TypeError"]     \* "_" in None
              ELSE IF Contains(sys, "_")
                   THEN [ret |-> ReplaceChar(sys, "_", "-"), exc |-> "none"]
                   ELSE [ret |-> sys, exc |-> "none"]
    ELSE IF sys = None
         THEN [ret |-> None, exc |-> "TypeError"]          \* None[:2]
    ELSE IF MoIsFile(Prefix(sys, 2), mo)
         THEN [ret |-> Prefix(sys, 2), exc |-> "none"]
    ELSE [ret |-> dflt, exc |-> "none"]

----------------------------------------------------------------------------
(* Hello.get_page *)

\* A file of the pages tree: absent, a directory, a regular file with a
\* text, a regular file that cannot be opened (permission denied), or a
\* regular file whose bytes do not decode as text.
AbsentFile == [kind |-> "absent", text |-> <<>>]
DirFile == [kind |-> "dir", text |-> <<>>]
UnreadableFile == [kind |-> "unreadable", text |-> <<>>]
UndecodableFile == [kind |-> "undecodable", text |-> <<>>]
TextFile(t) == [kind |-> "file", text |-> t]

\* the file at <data_path>/pages/<dir>/<name>
FileAt(pg, dir, name) ==
    IF <<dir, name>> \in DOMAIN pg THEN pg[<<dir, name>>] ELSE AbsentFile

\* os.path.isfile(filename)
IsFile(f) == f.kind \in {"file", "unreadable", "undecodable"}

\* with open(filename, "r") as fil: return fil.read()
OpenRead(f) ==
    CASE f.kind = "file" -> [ret |-> f.text, exc |-> "none"]
      [] f.kind = "undecodable" -> [ret |-> None, exc |-> "UnicodeDecodeError"]
      [] OTHER -> [ret |-> None, exc |-> "OSError"]

\* _("Can't load page.")
CantLoadPage == <<"Can't load page.">>

get_page(sv, dflt, name, pg) ==
    IF ~HasLocale(sv) THEN [ret |-> None, exc |-> "KeyError"]
    ELSE LET dir == IF IsFile(FileAt(pg, Format(sv.locale), name))
                    THEN Format(sv.locale)
                    ELSE Format(dflt)
             r == OpenRead(FileAt(pg, dir, name))
         IN  IF r.exc = "OSError"
             THEN [ret |-> CantLoadPage, exc |-> "none"]
             ELSE r

----------------------------------------------------------------------------
(* Hello.set_autostart *)

\* The text of ~/.i3/config is the sequence of its characters.
Hash == <<"#">>
app == <<"m", "a", "n", "j", "a", "r", "o", "-", "h", "e", "l", "l", "o">>
\* "exec --no-startup-id " + self.app
i3_autostart ==
    <<"e", "x", "e", "c", " ", "-", "-", "n", "o", "-", "s", "t", "a", "r",
      "t", "u", "p", "-", "i", "d", " ">> \o app
Newline == <<"\n">>

\* s.replace(pat, rep) for a non-empty pat: the occurrences are taken from
\* the left and do not overlap
RECURSIVE Replace(_, _, _)
Replace(s, pat, rep) ==
    IF Len(s) < Len(pat) THEN s
    ELSE IF SubSeq(s, 1, Len(pat)) = pat
         THEN rep \o Replace(SubSeq(s, Len(pat) + 1, Len(s)), pat, rep)
         ELSE <<s[1]>> \o Replace(Tail(s), pat, rep)

\* content.replace("#" + i3_autostart, i3_autostart)
Uncomment(c) == Replace(c, Hash \o i3_autostart, i3_autostart)

\* content.replace(i3_autostart, "#" + i3_autostart)
Comment(c) == Replace(c, i3_autostart, Hash \o i3_autostart)

\* file.seek(0); file.write(new) of which only the first n characters reach
\* the file, and no file.truncate(): the rest of the old text stays
Overwrite(old, new, n) ==
    LET k == IF n < Len(new) THEN n ELSE Len(new)
    IN  SubSeq(new, 1, k) \o SubSeq(old, k + 1, Len(old))

\* os.path.isfile(fix_path(self.preferences["autostart_path"])): isfile
\* follows a symbolic link, the link made by os.symlink points at
\* preferences["desktop_path"]
LinkIsFile(lk, dk) == lk = "file" \/ (lk = "symlink" /\ dk)

\* Lines 209-213.  fault names the system call that fails when it is made
\* ("none": no call fails).  os.symlink also fails when something is at the
\* link path already.
LinkStep(d, fault, lk, dk) ==
    IF d /\ ~LinkIsFile(lk, dk)
    THEN IF lk # "absent" THEN [link |-> lk, raised |-> "FileExistsError"]
         ELSE IF fault = "symlink"
              THEN [link |-> lk, raised |-> "PermissionError"]
              ELSE [link |-> "symlink", raised |-> "none"]
    ELSE IF ~d /\ LinkIsFile(lk, dk)
    THEN IF fault = "unlink"
         THEN [link |-> lk, raised |-> "PermissionError"]
         ELSE [link |-> "absent", raised |-> "none"]
    ELSE [link |-> lk, raised |-> "none"]

\* Lines 215-225.  fault "open": open raises.  fault "write": the write
\* raises after n characters of the new text reached the file.  fault
\* "truncate": the text is written and file.truncate() raises.
ConfigStep(d, fault, n, cfg) ==
    IF ~cfg.exists THEN [i3_config |-> cfg, raised |-> "none"]
    ELSE IF fault = "open" THEN [i3_config |-> cfg, raised |-> "PermissionError"]
    ELSE LET new == IF d THEN Uncomment(cfg.content) ELSE Comment(cfg.content)
         IN  IF fault = "write"
             THEN [i3_config |->
                     [cfg EXCEPT !.content = Overwrite(cfg.content, new, n)],
                   raised |-> "OSError"]
             ELSE IF fault = "truncate"
             THEN [i3_config |->
                     [cfg EXCEPT !.content =
                          Overwrite(cfg.content, new, Len(new))],
                   raised |-> "OSError"]
             ELSE [i3_config |-> [cfg EXCEPT !.content = new],
                   raised |-> "none"]

set_autostart_flagfirst(d, fault, n, lk, dk, cfg, flag) ==
    LET l == LinkStep(d, fault, lk, dk)
        c == ConfigStep(d, fault, n, cfg)
    IN  IF l.raised # "none"
        THEN [link |-> l.link, i3_config |-> cfg, autostart |-> d,
              raised |-> l.raised]
        ELSE [link |-> l.link, i3_config |-> c.i3_config, autostart |-> d,
              raised |-> c.raised]

\* The whole of set_autostart: except OSError prints the error, so that
\* self.autostart = autostart (line 226) is reached only when nothing failed.
set_autostart(d, fault, n, lk, dk, cfg, flag) ==
    LET l == LinkStep(d, fault, lk, dk)
        c == ConfigStep(d, fault, n, cfg)
    IN  IF l.raised # "none"
        THEN [link |-> l.link, i3_config |-> cfg, autostart |-> flag,
              raised |-> l.raised]
        ELSE IF c.raised # "none"
        THEN [link |-> l.link, i3_config |-> c.i3_config, autostart |-> flag,
              raised |-> c.raised]
        ELSE [link |-> l.link, i3_config |-> c.i3_config, autostart |-> d,
              raised |-> "none"]

----------------------------------------------------------------------------
(* read_json, write_json *)

\* The text of a JSON file is the sequence of its characters.
Quote == "\""
JNull == <<"n", "u", "l", "l">>
JString(x) == <<Quote>> \o x \o <<Quote>>
JObject(key, val) == <<"{">> \o JString(key) \o <<":", " ">> \o val \o <<"}">>

\* json.dump(content, fil) of None and of a dict with at most the key
\* "locale"
json_dump(sv) ==
    IF sv.kind = "None" THEN JNull
    ELSE IF sv.keys = {} THEN <<"{", "}">>
    ELSE JObject(LocaleKey,
                 IF sv.locale = None THEN JNull ELSE JString(sv.locale))

\* the text without the white space that is outside its strings
RECURSIVE StripSpace(_, _)
StripSpace(text, instring) ==
    IF Len(text) = 0 THEN <<>>
    ELSE IF text[1] = Quote
         THEN <<Quote>> \o StripSpace(Tail(text), ~instring)
    ELSE IF ~instring /\ text[1] \in {" ", "\n", "\t", "\r"}
         THEN StripSpace(Tail(text), instring)
    ELSE <<text[1]>> \o StripSpace(Tail(text), instring)

\* the least i >= from with text[i] = c, 0 when there is none
RECURSIVE IndexOf(_, _, _)
IndexOf(text, c, from) ==
    IF from > Len(text) THEN 0
    ELSE IF text[from] = c THEN from
    ELSE IndexOf(text, c, from + 1)

\* a JSON string without escapes, and the str it stands for
IsJString(t) ==
    /\ Len(t) >= 2
    /\ t[1] = Quote
    /\ IndexOf(t, Quote, 2) = Len(t)
    /\ IndexOf(t, "\\", 2) = 0
Unquote(t) == SubSeq(t, 2, Len(t) - 1)

\* json.load(fil): null, {} and {"<key>": null | "<string>"} are read;
\* every other text the model holds (the empty text, a text cut short)
\* is not JSON.
json_load(text) ==
    LET t == StripSpace(text, FALSE)
        q == IndexOf(t, Quote, 3)
        key == SubSeq(t, 2, q)
        val == SubSeq(t, q + 2, Len(t) - 1)
    IN  IF t = JNull THEN [ret |-> PyNone, exc |-> "none"]
        ELSE IF t = <<"{", "}">> THEN [ret |-> Dict({}, None), exc |-> "none"]
        ELSE IF /\ Len(t) >= 5
                /\ t[1] = "{"
                /\ t[Len(t)] = "}"
                /\ q # 0
                /\ IsJString(key)
                /\ q + 1 < Len(t)
                /\ t[q + 1] = ":"
                /\ (val = JNull \/ IsJString(val))
        THEN [ret |-> Dict({Unquote(key)},
                           IF Unquote(key) # LocaleKey \/ val = JNull
                           THEN None ELSE Unquote(val)),
              exc |-> "none"]
        ELSE [ret |-> PyNone, exc |-> "JSONDecodeError"]

\* read_json(path): open raises OSError for a file that is absent, a
\* directory or not readable, and None is returned; an error of
\* json.load is not an OSError and leaves the function
read_json(f) ==
    CASE f.kind = "file" -> json_load(f.text)
      [] f.kind = "undecodable" -> [ret |-> PyNone, exc |-> "UnicodeDecodeError"]
      [] OTHER -> [ret |-> PyNone, exc |-> "none"]

\* The file after open(path, "w") and a write of the text t.  Writing
\* leaves the mode of a file as it is: a file that cannot be read stays
\* one, and what it holds is seen by no read.
Written(f, t) == IF f.kind = "unreadable" THEN UnreadableFile ELSE TextFile(t)

\* write_json(path, content).  open(path, "w") raises for a directory, and
\* with fault "open"; the file is then as it was.  fault "write": open has
\* emptied (or created) the file and the write raises after n characters.
\* Every error is an OSError and is printed.
write_json(f, sv, fault, n) ==
    IF f.kind = "dir" \/ fault = "open" THEN [file |-> f, raised |-> "OSError"]
    ELSE IF fault = "write"
    THEN [file |-> Written(f, Prefix(json_dump(sv), n)), raised |-> "OSError"]
    ELSE [file |-> Written(f, json_dump(sv)), raised |-> "none"]

\* if not self.save: self.save = {"locale": None}
Falsy(v) == v.kind = "None" \/ v.keys = {}

----------------------------------------------------------------------------
(* Values the variables not used by a specification are held at *)

\* {"locale": x}
SaveOf(x) == Dict({LocaleKey}, x)
NoPages == [f \in {} |-> AbsentFile]
NoConfig == [exists |-> FALSE, content |-> <<>>]

----------------------------------------------------------------------------
(* Locale resolution on its own: Hello.get_best_locale applied to every    *)
(* saved locale, system locale, default locale and set of catalogs.        *)

SavedLocales == {None, en, fr, de, en_US, en_hy_US}
SysLocales == {None, EmptyStr, en, fr, de, en_US, fr_FR, de_DE}
DefaultLocales == {en, fr}
CatalogDirs == {en, fr, en_US, en_hy_US, NoneStr}

InitLocale ==
    /\ pc = "running"
    /\ save_file = AbsentFile
    /\ save \in {SaveOf(x) : x \in SavedLocales}
    /\ default_locale \in DefaultLocales
    /\ sys_locale \in SysLocales
    /\ locales \in SUBSET CatalogDirs
    /\ pages = NoPages
    /\ link = "absent"
    /\ desktop = TRUE
    /\ i3_config = NoConfig
    /\ autostart = FALSE
    /\ calls = <<>>
    /\ ncalls = 0
    /\ writes = 0
    /\ last = NoCall

GetBestLocale ==
    /\ pc = "running"
    /\ last.op = "none"
    /\ LET r == get_best_locale(save, default_locale, sys_locale, locales)
       IN  last' = [op |-> "get_best_locale", arg |-> None,
                    ret |-> r.ret, exc |-> r.exc]
    /\ UNCHANGED <<pc, save_file, save, default_locale, sys_locale, locales,
                   pages, link, desktop, i3_config, autostart, calls, ncalls,
                   writes>>

NextLocale == GetBestLocale

SpecLocale == InitLocale /\ [][NextLocale]_vars

Resolved == last.op = "get_best_locale"

\* C3: with no saved locale and an underscore-form system locale, the
\* resolver returns the hyphen form whenever a catalog exists for the
\* hyphen-form identifier.
C3_HyphenCatalogGivesHyphenForm ==
    (/\ Resolved
     /\ save.locale = None
     /\ ~MoIsFile(None, locales)
     /\ sys_locale # None
     /\ Contains(sys_locale, "_")
     /\ MoIsFile(ReplaceChar(sys_locale, "_", "-"), locales))
    => (last.exc = "none" /\ last.ret = ReplaceChar(sys_locale, "_", "-"))

\* C4: the locale returned by the resolver is the default locale or a
\* locale whose catalog exists.
C4_ReturnsDefaultOrInstalled ==
    (Resolved /\ last.exc = "none")
    => (last.ret = default_locale \/ MoIsFile(last.ret, locales))

\* C5: when the system locale cannot be determined and the saved locale
\* has no catalog and is not the default, the resolver returns the default
\* locale and raises nothing.
C5_UnknownSystemLocaleGivesDefault ==
    (/\ Resolved
     /\ sys_locale \in {None, EmptyStr}
     /\ ~MoIsFile(save.locale, locales)
     /\ save.locale # default_locale)
    => (last.exc = "none" /\ last.ret = default_locale)

\* C6: a saved locale whose catalog exists is returned unchanged, whatever
\* the system locale and the default locale are.
C6_SavedWithCatalogReturned ==
    (Resolved /\ MoIsFile(save.locale, locales))
    => (last.exc = "none" /\ last.ret = save.locale)

C6_Witness ==
    /\ Resolved
    /\ MoIsFile(save.locale, locales)
    /\ save.locale # default_locale
    /\ sys_locale # None
    /\ sys_locale # save.locale
    /\ MoIsFile(sys_locale, locales)
    /\ last.ret = save.locale

----------------------------------------------------------------------------
(* Page loading on its own: Hello.get_page applied to every current locale,*)
(* default locale, page and state of the two candidate files.              *)

PageLocales == {None, en, fr, de}
PageDirs == {en, fr}
PageIds == {<<"readme">>, <<"release">>}
PageTexts == {<<"About text">>, <<"Texte">>}
FileStates == {AbsentFile, DirFile, UnreadableFile, UndecodableFile}
                  \cup {TextFile(t) : t \in PageTexts}

InitPage ==
    /\ pc = "running"
    /\ save_file = AbsentFile
    /\ save \in {SaveOf(x) : x \in PageLocales}
    /\ default_locale \in DefaultLocales
    /\ sys_locale = en
    /\ locales = {}
    /\ pages \in [PageDirs \X PageIds -> FileStates]
    /\ link = "absent"
    /\ desktop = TRUE
    /\ i3_config = NoConfig
    /\ autostart = FALSE
    /\ calls = <<>>
    /\ ncalls = 0
    /\ writes = 0
    /\ last = NoCall

GetPage ==
    /\ pc = "running"
    /\ last.op = "none"
    /\ \E name \in PageIds :
         LET r == get_page(save, default_locale, name, pages)
         IN  last' = [op |-> "get_page", arg |-> name,
                      ret |-> r.ret, exc |-> r.exc]
    /\ UNCHANGED <<pc, save_file, save, default_locale, sys_locale, locales,
                   pages, link, desktop, i3_config, autostart, calls, ncalls,
                   writes>>

NextPage == GetPage

SpecPage == InitPage /\ [][NextPage]_vars

LocalePage == FileAt(pages, Format(save.locale), last.arg)
DefaultPage == FileAt(pages, Format(default_locale), last.arg)
Present(f) == f.kind = "file"
Absent(f) == f.kind = "absent"

\* C7: whatever the state of the page files, get_page raises nothing and
\* returns the body of the current locale's file when it is present, the
\* body of the default locale's file when the current locale's file is
\* absent and the default's is present, the "Can't load page." message
\* when both are absent, and never anything other than one of these three.
C7_PageOrDefaultOrMessage ==
    (last.op = "get_page")
    => /\ last.exc = "none"
       /\ Present(LocalePage) => last.ret = LocalePage.text
       /\ (Absent(LocalePage) /\ Present(DefaultPage))
              => last.ret = DefaultPage.text
       /\ (Absent(LocalePage) /\ Absent(DefaultPage))
              => last.ret = CantLoadPage
       /\ \/ Present(LocalePage) /\ last.ret = LocalePage.text
          \/ Present(DefaultPage) /\ last.ret = DefaultPage.text
          \/ last.ret = CantLoadPage

----------------------------------------------------------------------------
(* The autostart toggle: the switch state read at construction (line 98),  *)
(* then set_autostart called by on_action_clicked.                         *)

MaxCalls == 3
MaxConfigLen == 2

MaxCut == 1

\* the texts made of at most n of the pieces of S
RECURSIVE TextsUpTo(_, _)
TextsUpTo(S, n) ==
    IF n = 0 THEN {<<>>}
    ELSE LET shorter == TextsUpTo(S, n - 1)
         IN  shorter \cup {q \o x : q \in shorter, x \in S}

ConfigTokens == {Hash, i3_autostart, Newline}

LinkStates == {"absent", "symlink", "file", "dir"}
Faults == {"none", "symlink", "unlink", "open", "write", "truncate"}

InitAutostart ==
    /\ pc = "running"
    /\ save_file = AbsentFile
    /\ save = SaveOf(None)
    /\ default_locale = en
    /\ sys_locale = en
    /\ locales = {}
    /\ pages = NoPages
    /\ link \in LinkStates
    /\ desktop \in BOOLEAN
    /\ i3_config \in {NoConfig} \cup
           {[exists |-> TRUE, content |-> c] :
                c \in TextsUpTo(ConfigTokens, MaxConfigLen)}
    /\ autostart = LinkIsFile(link, desktop)
    /\ calls = <<>>
    /\ ncalls = 0
    /\ writes = 0
    /\ last = NoCall

FileSystem == [link |-> link, desktop |-> desktop, i3_config |-> i3_config]

\* on_action_clicked with name "autostart": self.set_autostart(d)
SetAutostart ==
    /\ pc = "running"
    /\ ncalls < MaxCalls
    /\ \E d \in BOOLEAN, fault \in Faults :
       \E n \in IF fault = "write" THEN 0..MaxCut ELSE {0} :
         LET r == set_autostart(d, fault, n, link, desktop, i3_config,
                                autostart)
             call == [desired |-> d, raised |-> r.raised,
                      before |-> FileSystem,
                      after |-> [link |-> r.link, desktop |-> desktop,
                                 i3_config |-> r.i3_config],
                      flag_before |-> autostart, flag_after |-> r.autostart]
         IN  /\ link' = r.link
             /\ i3_config' = r.i3_config
             /\ autostart' = r.autostart
             /\ calls' = IF Len(calls) < 2 THEN Append(calls, call)
                         ELSE <<calls[2], call>>
    /\ ncalls' = ncalls + 1
    /\ UNCHANGED <<pc, save_file, save, default_locale, sys_locale, locales,
                   pages, desktop, writes, last>>

NextAutostart == SetAutostart

SpecAutostart == InitAutostart /\ [][NextAutostart]_vars

\* a system call failed for a reason outside the program (permissions,
\* full disk), as opposed to os.symlink finding the path taken
Injected(call) == call.raised \in {"PermissionError", "OSError"}
TwoCalls == Len(calls) = 2 /\ ~Injected(calls[1]) /\ ~Injected(calls[2])

\* C1: two consecutive set_autostart calls with the same argument leave
\* the link and the text of the config file after the second call as they
\* were after the first.
C1_SameArgumentTwiceChangesNothing ==
    (TwoCalls /\ calls[1].desired = calls[2].desired)
    => calls[2].after = calls[1].after

\* C2: set_autostart(true) followed by set_autostart(false) leaves no
\* symbolic link at the link path, and a config file the first call
\* rewrote has, after the second call, the text it had before the first.
C2_TrueThenFalseRestores ==
    (TwoCalls /\ calls[1].desired /\ ~calls[2].desired)
    => /\ calls[2].after.link # "symlink"
       /\ (calls[1].after.i3_config # calls[1].before.i3_config)
              => calls[2].after.i3_config = calls[1].before.i3_config

LastCall == calls[Len(calls)]

\* C8: when a filesystem error is raised inside set_autostart, it does
\* not leave the call (the program keeps running) and self.autostart is
\* what it was before the call.
C8_ErrorLeavesFlag ==
    (calls # <<>> /\ LastCall.raised # "none")
    => (pc = "running" /\ autostart = LastCall.flag_before)

C8_Witness ==
    /\ calls # <<>>
    /\ LastCall.raised # "none"
    /\ LastCall.desired # LastCall.flag_before
    /\ LastCall.after.link # LastCall.before.link
    /\ autostart = LastCall.flag_before

\* C10: after construction and after every set_autostart call that raised
\* no filesystem error, self.autostart is true exactly when os.path.isfile
\* of the link path is true.
C10_FlagIsIsFile ==
    (calls = <<>> \/ LastCall.raised = "none")
    => (autostart <=> LinkIsFile(link, desktop))

----------------------------------------------------------------------------
(* The save record: read by Hello.__init__, changed by set_locale, written *)
(* by on_delete_window.                                                    *)

LanguageIds == {en, fr, de, en_hy_US}
SaveTexts ==
    { <<>>, <<"{">>, JNull, <<"{", "}">>,
      JObject(LocaleKey, JNull),
      JObject(LocaleKey, JString(en)),
      JObject(LocaleKey, JString(fr)),
      JObject(<<"o">>, JNull) }

InitSave ==
    /\ pc = "init"
    /\ save_file \in {AbsentFile, UnreadableFile, UndecodableFile}
                        \cup {TextFile(t) : t \in SaveTexts}
    /\ save = PyNone
    /\ default_locale = en
    /\ sys_locale \in {None, en, en_US, fr_FR}
    /\ locales \in SUBSET {en, fr, en_US}
    /\ pages = NoPages
    /\ link \in {"absent", "symlink"}
    /\ desktop = TRUE
    /\ i3_config = NoConfig
    /\ autostart = FALSE
    /\ calls = <<>>
    /\ ncalls = 0
    /\ writes = 0
    /\ last = NoCall

\* Hello.__init__: lines 48-50, 95 and 98
Startup ==
    /\ pc = "init"
    /\ LET r == read_json(save_file)
           sv == IF Falsy(r.ret) THEN SaveOf(None) ELSE r.ret
           b == get_best_locale(sv, default_locale, sys_locale, locales)
       IN  IF r.exc # "none"
           THEN /\ pc' = "crashed"
                /\ last' = [op |-> "__init__", arg |-> None, ret |-> None,
                            exc |-> r.exc]
                /\ UNCHANGED <<save, autostart>>
           ELSE IF b.exc # "none"
           THEN /\ pc' = "crashed"
                /\ save' = sv
                /\ last' = [op |-> "__init__", arg |-> None, ret |-> None,
                            exc |-> b.exc]
                /\ UNCHANGED autostart
           ELSE /\ pc' = "running"
                /\ save' = sv
                /\ autostart' = LinkIsFile(link, desktop)
                /\ last' = [op |-> "__init__", arg |-> None, ret |-> b.ret,
                            exc |-> "none"]
    /\ UNCHANGED <<save_file, default_locale, sys_locale, locales, pages,
                   link, desktop, i3_config, calls, ncalls, writes>>

\* on_languages_changed: self.set_locale(use_locale).  oserror: whether
\* gettext.translation raises OSError, on which set_locale returns at once.
SetLocale ==
    /\ pc = "running"
    /\ \E use_locale \in LanguageIds, oserror \in BOOLEAN :
         /\ save' = IF oserror THEN save
                    ELSE [save EXCEPT !.locale = use_locale]
         /\ last' = [op |-> "set_locale", arg |-> use_locale, ret |-> None,
                     exc |-> IF oserror THEN "OSError" ELSE "none"]
    /\ UNCHANGED <<pc, save_file, default_locale, sys_locale, locales, pages,
                   link, desktop, i3_config, autostart, calls, ncalls, writes>>

\* on_delete_window: write_json(save_path, self.save), then Gtk.main_quit
OnDeleteWindow ==
    /\ pc = "running"
    /\ \E fault \in {"none", "open", "write"} :
       \E n \in IF fault = "write" THEN 0..MaxCut ELSE {0} :
         LET r == write_json(save_file, save, fault, n)
         IN  /\ save_file' = r.file
             /\ writes' = IF r.raised = "none" THEN writes + 1 ELSE writes
             /\ last' = [op |-> "on_delete_window", arg |-> None,
                         ret |-> None, exc |-> r.raised]
    /\ pc' = "closed"
    /\ UNCHANGED <<save, default_locale, sys_locale, locales, pages, link,
                   desktop, i3_config, autostart, calls, ncalls>>

NextSave == Startup \/ SetLocale \/ OnDeleteWindow

SpecSave == InitSave /\ [][NextSave]_vars

Malformed(f) == read_json(f).exc # "none"

\* C9: with a save file that is absent, unreadable or malformed,
\* construction does not fail and self.save is {"locale": None}; and when
\* the window is closed the save file has been written once, with the
\* locale self.save holds at that moment (read back when the file can be
\* read).
C9_SaveFileNeverFatal ==
    /\ (/\ last.op = "__init__"
        /\ sys_locale # None
        /\ save_file.kind \in {"absent", "unreadable"} \/ Malformed(save_file))
       => (pc = "running" /\ save = SaveOf(None))
    /\ (pc = "closed" /\ last.exc = "none")
       => /\ writes = 1
          /\ save_file.kind = "file" => read_json(save_file).ret = save

====
